---- MODULE Spec2Model ----
(***************************************************************************)
(* Model of the Snapjack blackjack server (src/blackjack_server.js).       *)
(*                                                                         *)
(* The server is a single Node.js process: every HTTP handler, timer       *)
(* callback and promise continuation runs to its next suspension point     *)
(* (an await on real I/O) without interleaving.  One action of the model   *)
(* is one such run.  hit(), stand(), dealInitialCards() are async          *)
(* functions without any await inside, so they complete synchronously.     *)
(***************************************************************************)
EXTENDS Integers, Sequences, FiniteSets, TLC

(***************************************************************************)
(* Bounds of the model                                                     *)
(***************************************************************************)
\* number of BlackjackGame objects constructed in one run of the whole server
MaxGames == 2
\* number of BlackjackGame objects constructed in one run of the registry
MaxSessions == 3
\* number of BlackjackGame objects constructed in one run of one session
MaxDealt == 1
\* number of processReward() calls made for one game
MaxInvocations == 2
\* number of cards a player draws by hit in one session
MaxHits == 1

\* well-formed player identities (valid Solana addresses)
Players == {"p1"}
\* a missing playerId (undefined)
NoId == ""

(***************************************************************************)
(* Program constants                                                       *)
(***************************************************************************)
ENTRY_FEE == 3
NumDecks == 6
DealerStandsAt == 17
Blackjack == 21
ReleaseDelayMs == 5000
HourMs == 60 * 60 * 1000
CompletedWindowMs == 24 * HourMs
PaidWindowMs == 7 * 24 * HourMs

Suits == {"hearts", "diamonds", "clubs", "spades"}
Ranks == {"A", "2", "3", "4", "5", "6", "7", "8", "9", "10", "J", "Q", "K"}
\* a card of the deck, without its hidden flag
Faces == [suit : Suits, rank : Ranks]

\* The shuffles explored: the cards that come off the deck are among these.
DrawCards ==
  { [suit |-> "spades", rank |-> "A"],
    [suit |-> "diamonds", rank |-> "K"],
    [suit |-> "hearts", rank |-> "6"] }

Card(face, hidden) == [suit |-> face.suit, rank |-> face.rank, hidden |-> hidden]

(***************************************************************************)
(* Map helpers (JavaScript Map.set / Map.delete / Map.has)                 *)
(***************************************************************************)
MapSet(m, k, v) == [x \in (DOMAIN m) \cup {k} |-> IF x = k THEN v ELSE m[x]]
MapDelete(m, k) == [x \in (DOMAIN m) \ {k} |-> m[x]]
MapHas(m, k) == k \in DOMAIN m
EmptyMap == [x \in {} |-> TRUE]

(***************************************************************************)
(* State transition table                                                  *)
(***************************************************************************)
VALID_GAME_STATES(s) ==
  CASE s = "WAITING_FOR_BET" -> {"PLAYER_TURN"}
    [] s = "PLAYER_TURN" -> {"DEALER_TURN", "GAME_ENDED"}
    [] s = "DEALER_TURN" -> {"GAME_ENDED"}
    [] s = "GAME_ENDED" -> {}
    [] OTHER -> {}

isValidStateTransition(currentState, newState) ==
  newState \in VALID_GAME_STATES(currentState)

(***************************************************************************)
(* Scoring                                                                 *)
(***************************************************************************)
\* parseInt(card.rank, 10) for the numeral ranks
parseRank(rank) ==
  CASE rank = "2" -> 2 [] rank = "3" -> 3 [] rank = "4" -> 4 [] rank = "5" -> 5
    [] rank = "6" -> 6 [] rank = "7" -> 7 [] rank = "8" -> 8 [] rank = "9" -> 9
    [] rank = "10" -> 10

\* the value one card adds to score in the for loop
cardValue(card) ==
  IF card.hidden THEN 0
  ELSE IF card.rank = "A" THEN 11
  ELSE IF card.rank \in {"K", "Q", "J"} THEN 10
  ELSE parseRank(card.rank)

RECURSIVE sumValues(_)
sumValues(hand) ==
  IF hand = <<>> THEN 0 ELSE cardValue(Head(hand)) + sumValues(Tail(hand))

RECURSIVE countAces(_)
countAces(hand) ==
  IF hand = <<>> THEN 0
  ELSE (IF ~Head(hand).hidden /\ Head(hand).rank = "A" THEN 1 ELSE 0)
       + countAces(Tail(hand))

\* the reduction as it would be with `if` in the place of `while`: at most
\* one Ace is counted as 1
reduceOneAce(score, aces) ==
  IF score > Blackjack /\ aces > 0 THEN score - 10 ELSE score

\* while (score > 21 && aces > 0) { score -= 10; aces -= 1; }
RECURSIVE reduceAces(_, _)
reduceAces(score, aces) ==
  IF score > Blackjack /\ aces > 0 THEN reduceAces(score - 10, aces - 1) ELSE score

calculateScore(hand) == reduceAces(sumValues(hand), countAces(hand))

(***************************************************************************)
(* Server state                                                            *)
(***************************************************************************)
VARIABLES
  games,           \* Map playerId -> BlackjackGame (index into objs, 0: none)
  activePlayers,   \* Set of playerIds
  completedGames,  \* Map gameId -> {playerId, result, timestamp, processed}
  paidRewards,     \* Map transactionKey -> 'pending' | 'completed' | 'failed'
  objs,            \* every BlackjackGame object constructed, in order
  procs,           \* the processReward() calls made: [game, pc, gameCompletion]
  timers,          \* pending setTimeout callbacks (FIFO: all have the same delay)
  transferCalls,   \* Map transactionKey -> times the token transfer was started
  now,             \* Date.now(), in ms since the process started
  resp             \* the HTTP response the last step sent (NoResp: none)

vars == <<games, activePlayers, completedGames, paidRewards, objs, procs,
          timers, transferCalls, now, resp>>

NoGame == 0
NoResp == [op |-> "none"]

\* The mutable server state a handler works on, as one value.
World ==
  [games |-> games, activePlayers |-> activePlayers,
   completedGames |-> completedGames, paidRewards |-> paidRewards,
   objs |-> objs, procs |-> procs, timers |-> timers,
   transferCalls |-> transferCalls]

Commit(w) ==
  /\ games' = w.games
  /\ activePlayers' = w.activePlayers
  /\ completedGames' = w.completedGames
  /\ paidRewards' = w.paidRewards
  /\ objs' = w.objs
  /\ procs' = w.procs
  /\ timers' = w.timers
  /\ transferCalls' = w.transferCalls

(***************************************************************************)
(* Identifiers                                                             *)
(***************************************************************************)
\* new PublicKey(id) does not throw
isValidPublicKey(id) == id \in Players

\* Date.now().toString(36) + '-' + 16 random characters.  The random part is
\* taken to be fresh for every call (62^16 values): n is the call's draw.
\* t is the instant of the call.
generateSecureId(t, n) == [timestamp |-> t, random |-> n]

\* `${receiverAddress}-${gameId}`
transactionKey(receiverAddress, gameId) ==
  [address |-> receiverAddress, gameId |-> gameId]

(***************************************************************************)
(* Deck                                                                    *)
(***************************************************************************)
\* 6 decks of 52, shuffled.  The array is kept as the bag of cards still in
\* it: how many of each face the explored shuffles bring up, and how many
\* other cards.  The order of a uniformly shuffled deck is decided as cards
\* come off it.
createDeck ==
  [faces |-> [f \in DrawCards |-> NumDecks],
   others |-> NumDecks * (Cardinality(Faces) - Cardinality(DrawCards))]

RECURSIVE bagSize(_, _)
bagSize(bag, faces) ==
  IF faces = {} THEN 0
  ELSE LET f == CHOOSE x \in faces : TRUE
       IN bag[f] + bagSize(bag, faces \ {f})

\* deck.length
deckLength(deck) == bagSize(deck.faces, DOMAIN deck.faces) + deck.others

\* the faces deck.pop() may return
poppable(deck) == {f \in DOMAIN deck.faces : deck.faces[f] > 0}

\* the deck as it would be if the card were read and left in the array
peeked(deck, f) == deck

\* the deck after deck.pop() returned f
popped(deck, f) == [deck EXCEPT !.faces[f] = @ - 1]

(***************************************************************************)
(* BlackjackGame: methods without side effects outside the object          *)
(***************************************************************************)
getMessage(g) ==
  LET playerScore == calculateScore(g.playerHand)
      dealerScore == calculateScore(g.dealerHand)
  IN CASE g.state = "WAITING_FOR_BET" -> "Place your bet to start the game"
       [] g.state = "PLAYER_TURN" -> "Your turn! Hit or Stand?"
       [] g.state = "DEALER_TURN" -> "Dealer's turn..."
       [] g.state = "GAME_ENDED" ->
            IF playerScore > Blackjack THEN "Bust! You lost!"
            ELSE IF playerScore = Blackjack THEN "Perfect 21! You win!"
            ELSE IF dealerScore > Blackjack THEN "Dealer busts! You win!"
            ELSE IF playerScore > dealerScore THEN "You win!"
            ELSE "You lost!"
       [] OTHER -> "Error occurred"

\* the dealer card as it would be sent without the filter of lines 462-467
filterCardRevealing(card) == card

\* what the client is sent for one dealer card
filterCard(card) == IF card.hidden THEN [hidden |-> TRUE] ELSE card

getGameState(g) ==
  [playerHand |-> g.playerHand,
   dealerHand |-> [i \in 1..Len(g.dealerHand) |-> filterCard(g.dealerHand[i])],
   state |-> g.state,
   currentBet |-> g.currentBet,
   playerScore |-> calculateScore(g.playerHand),
   dealerScore |-> calculateScore(SelectSeq(g.dealerHand, LAMBDA c : ~c.hidden)),
   message |-> getMessage(g),
   gameId |-> g.gameId,
   rewardPaid |-> g.rewardPaid,
   completed |-> g.completed]

\* transitionState: the object after the call, and whether it threw
transitionState(g, newState) ==
  IF ~isValidStateTransition(g.state, newState)
  THEN [threw |-> TRUE, g |-> g]
  ELSE [threw |-> FALSE,
        g |-> [g EXCEPT !.state = newState,
                        !.stateHistory = Append(@, newState)]]

(***************************************************************************)
(* Reward payout: the synchronous part of the calls                        *)
(***************************************************************************)
NoEntry == [none |-> TRUE]

\* the calls of the token transfer (lines 533-582) made for a key
callsOf(w, key) == IF MapHas(w.transferCalls, key) THEN w.transferCalls[key] ELSE 0

\* sendCardsReward as it would be without the lookup of the key, line 525
sendCardsRewardWithoutLookup(w, receiverAddress, gameId) ==
  LET key == transactionKey(receiverAddress, gameId)
  IN IF ~isValidPublicKey(receiverAddress)
     THEN [outcome |-> "threw", w |-> w]
     ELSE [outcome |-> "suspended",
           w |-> [w EXCEPT !.paidRewards = MapSet(@, key, "pending"),
                           !.transferCalls = MapSet(@, key, callsOf(w, key) + 1)]]

\* sendCardsReward as it would be if pending were written only after the
\* first network call, and not with the lookup
sendCardsRewardPendingLate(w, receiverAddress, gameId) ==
  LET key == transactionKey(receiverAddress, gameId)
  IN IF ~isValidPublicKey(receiverAddress)
     THEN [outcome |-> "threw", w |-> w]
     ELSE IF MapHas(w.paidRewards, key)
     THEN [outcome |-> "null", w |-> w]
     ELSE [outcome |-> "suspended",
           w |-> [w EXCEPT !.transferCalls = MapSet(@, key, callsOf(w, key) + 1)]]

\* sendCardsReward up to its first suspension.  outcome: "threw" (rejected
\* before the try block), "null" (the key is already in paidRewards),
\* "suspended" (pending was written, the transfer has started and the call
\* awaits the network).
sendCardsReward(w, receiverAddress, gameId) ==
  LET key == transactionKey(receiverAddress, gameId)
  IN IF ~isValidPublicKey(receiverAddress)
     THEN [outcome |-> "threw", w |-> w]
     ELSE IF MapHas(w.paidRewards, key)
     THEN [outcome |-> "null", w |-> w]
     ELSE [outcome |-> "suspended",
           w |-> [w EXCEPT !.paidRewards = MapSet(@, key, "pending"),
                           !.transferCalls = MapSet(@, key, callsOf(w, key) + 1)]]

\* processReward as it would be if the caller waited for the transfer: the
\* call returns when the transfer has been made
processRewardAwaited(w, o) ==
  LET g == w.objs[o]
      key == transactionKey(g.playerId, g.gameId)
      gameCompletion == [w.completedGames[g.gameId] EXCEPT !.processed = TRUE]
  IN [w EXCEPT !.completedGames = MapSet(@, g.gameId, gameCompletion),
               !.paidRewards = MapSet(@, key, "completed"),
               !.transferCalls = MapSet(@, key, callsOf(w, key) + 1),
               !.objs[o].rewardPaid = TRUE,
               !.procs = Append(@, [game |-> o, pc |-> "resolved",
                                    gameCompletion |-> gameCompletion])]

\* processReward up to its first suspension.  Its continuation after
\* `await sendCardsReward(...)` is a microtask (pc "afterNull", "afterThrow")
\* or waits for the network (pc "getAccountInfo").
processReward(w, o) ==
  LET g == w.objs[o]
  IN IF ~MapHas(w.completedGames, g.gameId) \/ w.completedGames[g.gameId].processed
     THEN [w EXCEPT !.procs = Append(@, [game |-> o, pc |-> "returned",
                                         gameCompletion |-> NoEntry])]
     ELSE LET gameCompletion == [w.completedGames[g.gameId] EXCEPT !.processed = TRUE]
              w1 == [w EXCEPT !.completedGames = MapSet(@, g.gameId, gameCompletion)]
              r == sendCardsReward(w1, g.playerId, g.gameId)
              pc == CASE r.outcome = "threw" -> "afterThrow"
                      [] r.outcome = "null" -> "afterNull"
                      [] r.outcome = "suspended" -> "getAccountInfo"
          IN [r.w EXCEPT !.procs = Append(@, [game |-> o, pc |-> pc,
                                              gameCompletion |-> gameCompletion])]

\* the catch block of processReward as it would be if it left the ledger
\* entry marked as processed
rewardRejectedKeepingProcessed(w, i) ==
  [w EXCEPT !.procs[i].pc = "rejected"]

\* the catch block of processReward, for its call i
rewardRejected(w, i) ==
  LET g == w.objs[w.procs[i].game]
      gameCompletion == [w.procs[i].gameCompletion EXCEPT !.processed = FALSE]
  IN [w EXCEPT !.completedGames = MapSet(@, g.gameId, gameCompletion),
               !.procs[i].pc = "rejected",
               !.procs[i].gameCompletion = gameCompletion]

\* the lines of processReward after `await sendCardsReward(...)` returned
rewardResolved(w, i) ==
  [w EXCEPT !.objs[w.procs[i].game].rewardPaid = TRUE, !.procs[i].pc = "resolved"]

\* Promise continuations that are ready when a handler returns run before
\* any other handler or timer.
RECURSIVE drainMicrotasks(_, _)
drainMicrotasks(w, i) ==
  IF i > Len(w.procs) THEN w
  ELSE drainMicrotasks(
         CASE w.procs[i].pc = "afterNull" -> rewardResolved(w, i)
           [] w.procs[i].pc = "afterThrow" -> rewardRejected(w, i)
           [] OTHER -> w,
         i + 1)

\* markGameAsCompleted as it would be if processReward were called for a
\* loss as well
markGameAsCompletedPayingLoss(w, o, playerWon, t) ==
  IF w.objs[o].completed THEN w
  ELSE LET g == w.objs[o]
           w1 == [w EXCEPT !.objs[o].completed = TRUE,
                           !.completedGames =
                              MapSet(@, g.gameId,
                                     [playerId |-> g.playerId,
                                      result |-> IF playerWon THEN "win" ELSE "loss",
                                      timestamp |-> t,
                                      processed |-> FALSE])]
       IN [processReward(w1, o) EXCEPT !.timers = Append(@, o)]

\* markGameAsCompleted as it would be without its first line, the return
\* when the game is already completed
markGameAsCompletedAgain(w, o, playerWon, t) ==
  LET g == w.objs[o]
      w1 == [w EXCEPT !.objs[o].completed = TRUE,
                      !.completedGames =
                         MapSet(@, g.gameId,
                                [playerId |-> g.playerId,
                                 result |-> IF playerWon THEN "win" ELSE "loss",
                                 timestamp |-> t,
                                 processed |-> FALSE])]
      w2 == IF playerWon THEN processReward(w1, o) ELSE w1
  IN [w2 EXCEPT !.timers = Append(@, o)]

markGameAsCompleted(w, o, playerWon, t) ==
  IF w.objs[o].completed THEN w
  ELSE LET g == w.objs[o]
           w1 == [w EXCEPT !.objs[o].completed = TRUE,
                           !.completedGames =
                              MapSet(@, g.gameId,
                                     [playerId |-> g.playerId,
                                      result |-> IF playerWon THEN "win" ELSE "loss",
                                      timestamp |-> t,
                                      processed |-> FALSE])]
           w2 == IF playerWon THEN processReward(w1, o) ELSE w1
       IN [w2 EXCEPT !.timers = Append(@, o)]

(***************************************************************************)
(* BlackjackGame: construction and actions                                 *)
(***************************************************************************)
\* dealInitialCards as it would be without the check for a natural 21
dealInitialCardsWithoutNatural(w, o, faces, t) ==
  LET g == w.objs[o]
      d4 == popped(popped(popped(popped(g.deck, faces[1]), faces[2]), faces[3]),
                   faces[4])
  IN [w EXCEPT !.objs[o] =
        [g EXCEPT !.playerHand = <<Card(faces[1], FALSE), Card(faces[2], FALSE)>>,
                  !.dealerHand = <<Card(faces[3], FALSE), Card(faces[4], TRUE)>>,
                  !.deck = d4]]

\* faces: what the four deck.pop() calls return, in order
dealInitialCards(w, o, faces, t) ==
  LET g == w.objs[o]
      d1 == popped(g.deck, faces[1])
      d2 == popped(d1, faces[2])
      d3 == popped(d2, faces[3])
      d4 == popped(d3, faces[4])
      g1 == [g EXCEPT !.playerHand = <<Card(faces[1], FALSE), Card(faces[2], FALSE)>>,
                      !.dealerHand = <<Card(faces[3], FALSE), Card(faces[4], TRUE)>>,
                      !.deck = d4]
      w1 == [w EXCEPT !.objs[o] = g1]
      playerScore == calculateScore(g1.playerHand)
  IN IF playerScore = Blackjack
     THEN LET tr == transitionState(g1, "GAME_ENDED")
          IN IF tr.threw THEN w1
             ELSE markGameAsCompleted([w1 EXCEPT !.objs[o] = tr.g], o, TRUE, t)
     ELSE w1

\* the fields reset() assigns before dealing
resetFields(playerId, gameId) ==
  [playerId |-> playerId,
   gameId |-> gameId,
   completed |-> FALSE,
   deck |-> createDeck,
   playerHand |-> <<>>,
   dealerHand |-> <<>>,
   state |-> "PLAYER_TURN",
   currentBet |-> ENTRY_FEE,
   rewardPaid |-> FALSE,
   stateHistory |-> <<"PLAYER_TURN">>]

\* new BlackjackGame(playerId): [threw, error, w, o]
BlackjackGame(w, playerId, faces, t) ==
  IF ~isValidPublicKey(playerId)
  THEN [threw |-> TRUE, w |-> w, o |-> NoGame,
        error |-> "Invalid player account. Must be a valid Solana address."]
  ELSE IF playerId \in w.activePlayers
  THEN [threw |-> TRUE, w |-> w, o |-> NoGame,
        error |-> "You already have an active game in progress. Complete or reset that game first."]
  ELSE LET o == Len(w.objs) + 1
           g == resetFields(playerId, generateSecureId(t, o))
           w1 == [w EXCEPT !.activePlayers = @ \cup {playerId},
                           !.objs = Append(@, g)]
       IN [threw |-> FALSE, w |-> dealInitialCards(w1, o, faces, t), o |-> o,
           error |-> ""]

\* game.hit() as it would be if a score of 21 were treated like a bust
hitLosingAt21(w, o, face, t) ==
  LET g == w.objs[o]
      g1 == [g EXCEPT !.playerHand = Append(@, Card(face, FALSE)),
                      !.deck = popped(@, face)]
      tr == transitionState(g1, "GAME_ENDED")
  IN IF g.state # "PLAYER_TURN"
     THEN [threw |-> TRUE, error |-> "Cannot hit at this time", w |-> w]
     ELSE IF calculateScore(g1.playerHand) >= Blackjack
     THEN [threw |-> FALSE, error |-> "",
           w |-> markGameAsCompleted([w EXCEPT !.objs[o] = tr.g], o, FALSE, t)]
     ELSE [threw |-> FALSE, error |-> "", w |-> [w EXCEPT !.objs[o] = g1]]

\* game.hit(): [threw, error, w]; face is what deck.pop() returns
hit(w, o, face, t) ==
  LET g == w.objs[o]
  IN IF g.state # "PLAYER_TURN"
     THEN [threw |-> TRUE, error |-> "Cannot hit at this time", w |-> w]
     ELSE LET g1 == [g EXCEPT !.playerHand = Append(@, Card(face, FALSE)),
                              !.deck = popped(@, face)]
              w1 == [w EXCEPT !.objs[o] = g1]
              playerScore == calculateScore(g1.playerHand)
              tr == transitionState(g1, "GAME_ENDED")
              w2 == [w1 EXCEPT !.objs[o] = tr.g]
          IN IF playerScore > Blackjack
             THEN IF tr.threw
                  THEN [threw |-> TRUE, error |-> "Invalid state transition", w |-> w1]
                  ELSE [threw |-> FALSE, error |-> "",
                        w |-> markGameAsCompleted(w2, o, FALSE, t)]
             ELSE IF playerScore = Blackjack
             THEN IF tr.threw
                  THEN [threw |-> TRUE, error |-> "Invalid state transition", w |-> w1]
                  ELSE [threw |-> FALSE, error |-> "",
                        w |-> markGameAsCompleted(w2, o, TRUE, t)]
             ELSE [threw |-> FALSE, error |-> "", w |-> w1]

\* the sequences of faces the dealer loop can pop before it stops
RECURSIVE dealerDraws(_, _)
dealerDraws(hand, deck) ==
  IF ~(calculateScore(hand) < DealerStandsAt) THEN {<<>>}
  ELSE UNION { { <<f>> \o rest :
                 rest \in dealerDraws(Append(hand, Card(f, FALSE)), popped(deck, f)) } :
               f \in poppable(deck) }

\* the dealer loop as it would be if the dealer stood on 16
RECURSIVE dealerLoopStandingAt16(_, _)
dealerLoopStandingAt16(g, draws) ==
  IF ~(calculateScore(g.dealerHand) < DealerStandsAt - 1) \/ draws = <<>> THEN g
  ELSE dealerLoopStandingAt16(
         [g EXCEPT !.dealerHand = Append(@, Card(Head(draws), FALSE)),
                   !.deck = popped(@, Head(draws))],
         Tail(draws))

\* while (dealerScore < 17) { push(pop()) }, popping the faces of draws
RECURSIVE dealerLoop(_, _)
dealerLoop(g, draws) ==
  IF ~(calculateScore(g.dealerHand) < DealerStandsAt) \/ draws = <<>> THEN g
  ELSE dealerLoop([g EXCEPT !.dealerHand = Append(@, Card(Head(draws), FALSE)),
                            !.deck = popped(@, Head(draws))],
                  Tail(draws))

revealAll(hand) == [i \in 1..Len(hand) |-> [hand[i] EXCEPT !.hidden = FALSE]]

\* game.stand() as it would be if it gave up control after its first
\* transition: the dealer's cards are revealed and nothing else is done
standUntilDealerTurn(w, o, draws, t) ==
  LET g == w.objs[o]
      tr1 == transitionState(g, "DEALER_TURN")
  IN IF g.state # "PLAYER_TURN"
     THEN [threw |-> TRUE, error |-> "Cannot stand at this time", w |-> w]
     ELSE IF g.completed
     THEN [threw |-> TRUE, error |-> "Game is already completed", w |-> w]
     ELSE [threw |-> FALSE, error |-> "",
           w |-> [w EXCEPT !.objs[o] = [tr1.g EXCEPT !.dealerHand = revealAll(@)]]]

\* game.stand() as it would be if equal scores were a win for the player
standWinningTies(w, o, draws, t) ==
  LET g == w.objs[o]
      tr1 == transitionState(g, "DEALER_TURN")
      g2 == dealerLoop([tr1.g EXCEPT !.dealerHand = revealAll(@)], draws)
      dealerScore == calculateScore(g2.dealerHand)
      tr2 == transitionState(g2, "GAME_ENDED")
      playerScore == calculateScore(tr2.g.playerHand)
      playerWon == playerScore <= Blackjack
                   /\ (dealerScore > Blackjack \/ playerScore >= dealerScore)
  IN IF g.state # "PLAYER_TURN"
     THEN [threw |-> TRUE, error |-> "Cannot stand at this time", w |-> w]
     ELSE IF g.completed
     THEN [threw |-> TRUE, error |-> "Game is already completed", w |-> w]
     ELSE [threw |-> FALSE, error |-> "",
           w |-> markGameAsCompleted([w EXCEPT !.objs[o] = tr2.g], o, playerWon, t)]

\* game.stand(): [threw, error, w]
stand(w, o, draws, t) ==
  LET g == w.objs[o]
  IN IF g.state # "PLAYER_TURN"
     THEN [threw |-> TRUE, error |-> "Cannot stand at this time", w |-> w]
     ELSE IF g.completed
     THEN [threw |-> TRUE, error |-> "Game is already completed", w |-> w]
     ELSE LET tr1 == transitionState(g, "DEALER_TURN")
              g2 == dealerLoop([tr1.g EXCEPT !.dealerHand = revealAll(@)], draws)
              dealerScore == calculateScore(g2.dealerHand)
              tr2 == transitionState(g2, "GAME_ENDED")
              playerScore == calculateScore(tr2.g.playerHand)
              playerWon == IF playerScore > Blackjack THEN FALSE
                           ELSE IF dealerScore > Blackjack \/ playerScore > dealerScore
                           THEN TRUE
                           ELSE FALSE
          IN IF tr1.threw
             THEN [threw |-> TRUE, error |-> "Invalid state transition", w |-> w]
             ELSE IF tr2.threw
             THEN [threw |-> TRUE, error |-> "Invalid state transition",
                   w |-> [w EXCEPT !.objs[o] = g2]]
             ELSE [threw |-> FALSE, error |-> "",
                   w |-> markGameAsCompleted([w EXCEPT !.objs[o] = tr2.g], o,
                                             playerWon, t)]

(***************************************************************************)
(* Registry                                                                *)
(***************************************************************************)
\* A BlackjackGame that games no longer maps to is reachable only from the
\* closures of its processReward call and of its release timer, which use
\* playerId, gameId and rewardPaid: its cards and history are dropped.
unreachable(g) ==
  [g EXCEPT !.deck = [faces |-> EmptyMap, others |-> 0], !.playerHand = <<>>, !.dealerHand = <<>>,
            !.stateHistory = <<>>]

dropIfReplaced(w, old, o) ==
  IF old # NoGame /\ old # o THEN [w EXCEPT !.objs[old] = unreachable(@)] ELSE w

\* games.set(playerId, game)
gamesSet(w, playerId, o) ==
  dropIfReplaced([w EXCEPT !.games[playerId] = o], w.games[playerId], o)

\* games.delete(playerId)
gamesDelete(w, playerId) ==
  IF playerId \in DOMAIN w.games
  THEN dropIfReplaced([w EXCEPT !.games[playerId] = NoGame], w.games[playerId], NoGame)
  ELSE w

\* games.get(playerId)
gamesGet(w, playerId) ==
  IF playerId \in DOMAIN w.games THEN w.games[playerId] ELSE NoGame

(***************************************************************************)
(* HTTP handlers: [w, resp]                                                *)
(***************************************************************************)
Response(op, playerId, status, body) ==
  [op |-> op, playerId |-> playerId, status |-> status, body |-> body]

Error(op, playerId, status, message) ==
  Response(op, playerId, status, [error |-> message])

\* POST /api/game/create
createHandler(w, playerId, entryFeePaid, faces, t) ==
  IF playerId = NoId
  THEN [w |-> w, resp |-> Error("create", playerId, 400, "Player ID is required")]
  ELSE IF ~isValidPublicKey(playerId)
  THEN [w |-> w, resp |-> Error("create", playerId, 400, "Invalid player ID format")]
  ELSE IF ~entryFeePaid
  THEN [w |-> w, resp |-> Error("create", playerId, 400, "Entry fee must be paid")]
  ELSE IF playerId \in w.activePlayers /\ gamesGet(w, playerId) # NoGame
  THEN [w |-> w,
        resp |-> Response("create", playerId, 200,
                          getGameState(w.objs[gamesGet(w, playerId)]))]
  ELSE LET w0 == IF playerId \in w.activePlayers
                 THEN [w EXCEPT !.activePlayers = @ \ {playerId}]
                 ELSE w
           c == BlackjackGame(w0, playerId, faces, t)
       IN IF c.threw
          THEN [w |-> c.w, resp |-> Error("create", playerId, 500, c.error)]
          ELSE [w |-> gamesSet(c.w, playerId, c.o),
                resp |-> Response("create", playerId, 200, getGameState(c.w.objs[c.o]))]

\* POST /api/game/reset as it would be without activePlayers.delete
resetHandlerKeepingMarker(w, playerId, faces, t) ==
  LET c == BlackjackGame(gamesDelete(w, playerId), playerId, faces, t)
  IN IF c.threw
     THEN [w |-> c.w, resp |-> Error("reset", playerId, 500, c.error)]
     ELSE [w |-> gamesSet(c.w, playerId, c.o),
           resp |-> Response("reset", playerId, 200, getGameState(c.w.objs[c.o]))]

\* POST /api/game/reset
resetHandler(w, playerId, faces, t) ==
  IF playerId = NoId
  THEN [w |-> w, resp |-> Error("reset", playerId, 400, "Player ID is required")]
  ELSE IF ~isValidPublicKey(playerId)
  THEN [w |-> w, resp |-> Error("reset", playerId, 400, "Invalid player ID format")]
  ELSE LET w0 == gamesDelete([w EXCEPT !.activePlayers = @ \ {playerId}], playerId)
           c == BlackjackGame(w0, playerId, faces, t)
       IN IF c.threw
          THEN [w |-> c.w, resp |-> Error("reset", playerId, 500, c.error)]
          ELSE [w |-> gamesSet(c.w, playerId, c.o),
                resp |-> Response("reset", playerId, 200, getGameState(c.w.objs[c.o]))]

\* POST /api/game/hit as it would be without the checks of completed and
\* of the state: the card is drawn for any session
hitHandlerUnchecked(w, playerId, face, t) ==
  LET o == gamesGet(w, playerId)
      w1 == [w EXCEPT !.objs[o].playerHand = Append(@, Card(face, FALSE)),
                      !.objs[o].deck = popped(@, face)]
  IN IF o = NoGame
     THEN [w |-> w, resp |-> Error("hit", playerId, 404, "Game not found")]
     ELSE [w |-> w1, resp |-> Response("hit", playerId, 200, getGameState(w1.objs[o]))]

\* POST /api/game/hit
hitHandler(w, playerId, face, t) ==
  LET o == gamesGet(w, playerId)
      r == hit(w, o, face, t)
  IN IF o = NoGame
     THEN [w |-> w, resp |-> Error("hit", playerId, 404, "Game not found")]
     ELSE IF w.objs[o].completed
     THEN [w |-> w, resp |-> Error("hit", playerId, 400, "Game is already completed")]
     ELSE IF r.threw
     THEN [w |-> r.w, resp |-> Error("hit", playerId, 400, r.error)]
     ELSE [w |-> r.w, resp |-> Response("hit", playerId, 200, getGameState(r.w.objs[o]))]

\* POST /api/game/stand
standHandler(w, playerId, draws, t) ==
  LET o == gamesGet(w, playerId)
      r == stand(w, o, draws, t)
  IN IF o = NoGame
     THEN [w |-> w, resp |-> Error("stand", playerId, 404, "Game not found")]
     ELSE IF w.objs[o].completed
     THEN [w |-> w, resp |-> Error("stand", playerId, 400, "Game is already completed")]
     ELSE IF r.threw
     THEN [w |-> r.w, resp |-> Error("stand", playerId, 400, r.error)]
     ELSE [w |-> r.w, resp |-> Response("stand", playerId, 200, getGameState(r.w.objs[o]))]

\* GET /api/game/state/:playerId
stateHandler(w, playerId) ==
  LET o == gamesGet(w, playerId)
  IN IF ~isValidPublicKey(playerId)
     THEN [w |-> w, resp |-> Error("state", playerId, 400, "Invalid player ID format")]
     ELSE IF o = NoGame
     THEN [w |-> w, resp |-> Error("state", playerId, 404, "Game not found")]
     ELSE [w |-> w, resp |-> Response("state", playerId, 200, getGameState(w.objs[o]))]

\* POST /api/game/test/force-win (NODE_ENV is not 'production')
\* playerCards, dealerCards: [given, cards]
forceWinHandler(w, playerId, playerCards, dealerCards, faces, t) ==
  IF playerId = NoId
  THEN [w |-> w, resp |-> Error("force-win", playerId, 400, "Player ID is required")]
  ELSE LET found == gamesGet(w, playerId)
           w0 == [w EXCEPT !.activePlayers = @ \ {playerId}]
           c == BlackjackGame(w0, playerId, faces, t)
       IN IF found = NoGame /\ c.threw
          THEN [w |-> c.w, resp |-> Error("force-win", playerId, 500, c.error)]
          ELSE LET o == IF found = NoGame THEN c.o ELSE found
                   w1 == IF found = NoGame THEN gamesSet(c.w, playerId, c.o) ELSE w
                   g == w1.objs[o]
                   g1 == [g EXCEPT
                            !.playerHand = IF playerCards.given THEN playerCards.cards ELSE @,
                            !.dealerHand = IF dealerCards.given THEN dealerCards.cards ELSE @,
                            !.state = "GAME_ENDED",
                            !.stateHistory = Append(@, "GAME_ENDED")]
                   playerScore == calculateScore(g1.playerHand)
                   dealerScore == calculateScore(g1.dealerHand)
                   playerWins == (dealerScore > Blackjack)
                                 \/ (playerScore <= Blackjack /\ playerScore > dealerScore)
                   w2 == markGameAsCompleted([w1 EXCEPT !.objs[o] = g1], o, playerWins, t)
               IN [w |-> w2,
                   resp |-> Response("force-win", playerId, 200, getGameState(w2.objs[o]))]

(***************************************************************************)
(* Retention sweepers                                                      *)
(***************************************************************************)
\* the ledger sweeper as it would be if it removed only the entries whose
\* reward has been processed
cleanupOldCompletedGamesProcessed(w, t) ==
  LET twentyFourHoursAgo == t - CompletedWindowMs
      kept == {gameId \in DOMAIN w.completedGames :
                 ~(/\ w.completedGames[gameId].timestamp < twentyFourHoursAgo
                   /\ w.completedGames[gameId].processed)}
  IN [w EXCEPT !.completedGames = [gameId \in kept |-> w.completedGames[gameId]]]

cleanupOldCompletedGames(w, t) ==
  LET twentyFourHoursAgo == t - CompletedWindowMs
      kept == {gameId \in DOMAIN w.completedGames :
                 ~(w.completedGames[gameId].timestamp < twentyFourHoursAgo)}
  IN [w EXCEPT !.completedGames = [gameId \in kept |-> w.completedGames[gameId]]]

\* Date.now() is about 1.76 * 10^12 when the process starts.  Such numbers
\* are kept in two limbs, high * 36^4 + low.
Limb == 36 * 36 * 36 * 36
ProcessStart == [high |-> 1048000, low |-> 0]

\* Date.now() at the instant t (t may be negative: an instant before start)
dateNow(t) ==
  [high |-> ProcessStart.high + ((ProcessStart.low + t) \div Limb),
   low |-> (ProcessStart.low + t) % Limb]

\* Number.prototype.toString(36): the digits, most significant first
RECURSIVE toString36(_)
toString36(n) ==
  IF n < 36 THEN <<n>> ELSE Append(toString36(n \div 36), n % 36)

\* toString(36) of a number in two limbs
dateToString36(d) ==
  IF d.high = 0 THEN toString36(d.low)
  ELSE toString36(d.high)
       \o << d.low \div (36 * 36 * 36), (d.low \div (36 * 36)) % 36,
             (d.low \div 36) % 36, d.low % 36 >>

\* parseInt(s, 10) of a string of base-36 digits: the value of the longest
\* prefix of decimal digits, NaN if that prefix is empty
NaN == [nan |-> TRUE]
RECURSIVE parseDecimalPrefix(_, _)
parseDecimalPrefix(digits, acc) ==
  IF digits = <<>> \/ Head(digits) > 9 THEN acc
  ELSE parseDecimalPrefix(Tail(digits), 10 * acc + Head(digits))

parseInt10(digits) ==
  IF digits = <<>> \/ Head(digits) > 9 THEN NaN ELSE parseDecimalPrefix(digits, 0)

\* n < d, for a number n and a number d in two limbs
lessThanDate(n, d) ==
  \/ n \div Limb < d.high
  \/ n \div Limb = d.high /\ n % Limb < d.low

\* key.split('-')[1] is the timestamp part of the gameId, in base 36
keyTimestampPart(key) == dateToString36(dateNow(key.gameId.timestamp))

cleanupOldPaidRewards(w, t) ==
  LET sevenDaysAgo == dateNow(t - PaidWindowMs)
      removed == {key \in DOMAIN w.paidRewards :
                    LET timestamp == parseInt10(keyTimestampPart(key))
                    IN timestamp # NaN /\ lessThanDate(timestamp, sevenDaysAgo)}
  IN [w EXCEPT !.paidRewards =
                 [key \in (DOMAIN w.paidRewards) \ removed |-> w.paidRewards[key]]]

(***************************************************************************)
(* Continuations of sendCardsReward                                        *)
(***************************************************************************)
\* the catch block of sendCardsReward as it would be if it rethrew without
\* writing failed
sendCardsRewardFailedSilently(w, i) == rewardRejected(w, i)

\* catch block of sendCardsReward, then the rejection reaches the catch
\* block of processReward in the same run of microtasks
sendCardsRewardFailed(w, i) ==
  LET g == w.objs[w.procs[i].game]
      key == transactionKey(g.playerId, g.gameId)
  IN rewardRejected([w EXCEPT !.paidRewards = MapSet(@, key, "failed")], i)

\* connection.getAccountInfo resolved (found: the receiver's token account
\* exists), or rejected
afterGetAccountInfo(w, i, found) ==
  IF found THEN [w EXCEPT !.procs[i].pc = "getRecentBlockhash"]
  ELSE sendCardsRewardFailed(w, i)

\* connection.getRecentBlockhash resolved; on success the transaction is
\* signed and connection.sendRawTransaction is called
afterGetRecentBlockhash(w, i, ok) ==
  IF ok THEN [w EXCEPT !.procs[i].pc = "sendRawTransaction"]
  ELSE sendCardsRewardFailed(w, i)

\* connection.sendRawTransaction resolved; on success the function returns
\* and processReward continues in the same run of microtasks
afterSendRawTransaction(w, i, ok) ==
  LET g == w.objs[w.procs[i].game]
      key == transactionKey(g.playerId, g.gameId)
  IN IF ok
     THEN rewardResolved([w EXCEPT !.paidRewards = MapSet(@, key, "completed")], i)
     ELSE sendCardsRewardFailed(w, i)

(***************************************************************************)
(* Inputs                                                                  *)
(***************************************************************************)
Ace == [suit |-> "spades", rank |-> "A"]
King == [suit |-> "diamonds", rank |-> "K"]
Six == [suit |-> "hearts", rank |-> "6"]
Deals == [1..4 -> DrawCards]
AnyDeal == CHOOSE faces \in Deals : TRUE
\* the deals the whole-server specification explores: a natural, and a hand
\* of 20 against a dealer who holds 16 and has to draw
SystemDeals == { <<Ace, King, King, Six>>, <<King, King, King, Six>> }

NotGiven == [given |-> FALSE, cards |-> <<>>]
\* the bodies of the force-win requests explored: no cards, or both hands
ForcedCards ==
  { [playerCards |-> NotGiven, dealerCards |-> NotGiven],
    [playerCards |-> [given |-> TRUE,
                      cards |-> <<Card(King, FALSE), Card(King, FALSE)>>],
     dealerCards |-> [given |-> TRUE,
                      cards |-> <<Card(King, FALSE), Card(Six, TRUE)>>]] }
\* the instants at which anything happens: process start, and the first
\* instant at which both sweepers are due
Instants == {0, PaidWindowMs}

(***************************************************************************)
(* Actions                                                                 *)
(***************************************************************************)
\* A handler's run: its effects, then the ready promise continuations.
Handle(r) ==
  /\ Commit(drainMicrotasks(r.w, 1))
  /\ resp' = r.resp
  /\ UNCHANGED now

Background(w) ==
  /\ Commit(w)
  /\ resp' = NoResp
  /\ UNCHANGED now

\* The cards of a deal matter only to a request that constructs a game.
constructs(r) == Len(r.w.objs) > Len(objs)

CreateFrom(deals, maxGames) ==
  \E playerId \in Players :
    LET r == createHandler(World, playerId, TRUE, AnyDeal, now)
    IN IF constructs(r)
       THEN /\ Len(objs) < maxGames
            /\ \E faces \in deals :
                 Handle(createHandler(World, playerId, TRUE, faces, now))
       ELSE Handle(r)

ResetFrom(deals, maxGames) ==
  \E playerId \in Players :
    LET r == resetHandler(World, playerId, AnyDeal, now)
    IN IF constructs(r)
       THEN /\ Len(objs) < maxGames
            /\ \E faces \in deals :
                 Handle(resetHandler(World, playerId, faces, now))
       ELSE Handle(r)

isLive(playerId) ==
  /\ games[playerId] # NoGame
  /\ ~objs[games[playerId]].completed
  /\ objs[games[playerId]].state = "PLAYER_TURN"

Hit ==
  \E playerId \in Players :
    IF isLive(playerId)
    THEN /\ Len(objs[games[playerId]].playerHand) < 2 + MaxHits
         /\ \E face \in poppable(objs[games[playerId]].deck) :
              Handle(hitHandler(World, playerId, face, now))
    ELSE Handle(hitHandler(World, playerId, King, now))

Stand ==
  \E playerId \in Players :
    IF isLive(playerId)
    THEN \E draws \in dealerDraws(revealAll(objs[games[playerId]].dealerHand),
                                  objs[games[playerId]].deck) :
           Handle(standHandler(World, playerId, draws, now))
    ELSE Handle(standHandler(World, playerId, <<>>, now))

GetState ==
  \E playerId \in Players :
    Handle(stateHandler(World, playerId))

\* Every forced outcome appends to stateHistory: a session whose history
\* already repeats GAME_ENDED is not forced again.
forcedAgain(g) ==
  /\ Len(g.stateHistory) >= 2
  /\ g.stateHistory[Len(g.stateHistory)] = "GAME_ENDED"
  /\ g.stateHistory[Len(g.stateHistory) - 1] = "GAME_ENDED"

ForceWinWith(bodies, deals, maxGames) ==
  \E playerId \in Players, body \in bodies :
    LET r == forceWinHandler(World, playerId, body.playerCards, body.dealerCards,
                             AnyDeal, now)
    IN /\ games[playerId] # NoGame => ~forcedAgain(objs[games[playerId]])
       /\ IF constructs(r)
          THEN /\ Len(objs) < maxGames
               /\ \E faces \in deals :
                    Handle(forceWinHandler(World, playerId, body.playerCards,
                                           body.dealerCards, faces, now))
          ELSE Handle(r)

ForceWinFrom(deals, maxGames) == ForceWinWith(ForcedCards, deals, maxGames)

\* the oldest setTimeout callback of markGameAsCompleted fires
ReleaseTimer ==
  /\ timers # <<>>
  /\ Background([World EXCEPT !.activePlayers = @ \ {objs[Head(timers)].playerId},
                              !.timers = Tail(@)])

AccountInfoArrives ==
  \E i \in 1..Len(procs), found \in BOOLEAN :
    /\ procs[i].pc = "getAccountInfo"
    /\ Background(afterGetAccountInfo(World, i, found))

BlockhashArrives ==
  \E i \in 1..Len(procs), ok \in BOOLEAN :
    /\ procs[i].pc = "getRecentBlockhash"
    /\ Background(afterGetRecentBlockhash(World, i, ok))

SendResolves ==
  \E i \in 1..Len(procs), ok \in BOOLEAN :
    /\ procs[i].pc = "sendRawTransaction"
    /\ Background(afterSendRawTransaction(World, i, ok))

\* the interval callbacks that are due at instant t, in the order the
\* intervals were set
sweepersDue(w, t) ==
  LET w1 == IF t % CompletedWindowMs = 0 THEN cleanupOldCompletedGames(w, t) ELSE w
  IN IF t % PaidWindowMs = 0 THEN cleanupOldPaidRewards(w1, t) ELSE w1

\* Time passes to the next instant explored, and the sweepers due then run.
\* The release timers that were pending have fired long before.
SweepersRunAt(instants) ==
  \E t \in instants :
    /\ t > now
    /\ \A u \in instants : u > now => t <= u
    /\ t - now > ReleaseDelayMs
    /\ timers = <<>>
    /\ now' = t
    /\ Commit(sweepersDue(World, t))
    /\ resp' = NoResp

SweepersRun == SweepersRunAt(Instants)

(***************************************************************************)
(* The whole server                                                        *)
(***************************************************************************)
Create == CreateFrom(SystemDeals, MaxGames)
Reset == ResetFrom(SystemDeals, MaxGames)
ForceWin == ForceWinFrom(SystemDeals, MaxGames)

Init ==
  /\ games = [p \in Players |-> NoGame]
  /\ activePlayers = {}
  /\ completedGames = EmptyMap
  /\ paidRewards = EmptyMap
  /\ objs = <<>>
  /\ procs = <<>>
  /\ timers = <<>>
  /\ transferCalls = EmptyMap
  /\ now = 0
  /\ resp = NoResp

Next ==
  \/ Create
  \/ Reset
  \/ Hit
  \/ Stand
  \/ GetState
  \/ ForceWin
  \/ ReleaseTimer
  \/ AccountInfoArrives
  \/ BlockhashArrives
  \/ SendResolves
  \/ SweepersRun

Spec == Init /\ [][Next]_vars

(***************************************************************************)
(* One session, over every deal of the explored cards                      *)
(***************************************************************************)
CreateAnyDeal == CreateFrom(Deals, MaxDealt)

NextGame ==
  \/ CreateAnyDeal
  \/ Hit
  \/ Stand
  \/ GetState
  \/ ReleaseTimer
  \/ AccountInfoArrives
  \/ BlockhashArrives
  \/ SendResolves

SpecGame == Init /\ [][NextGame]_vars

(***************************************************************************)
(* The registry: the sessions of one player, one after another             *)
(***************************************************************************)
CreateSession == CreateFrom(SystemDeals, MaxSessions)
ResetSession == ResetFrom(SystemDeals, MaxSessions)

NextRegistry ==
  \/ CreateSession
  \/ ResetSession
  \/ Hit
  \/ Stand
  \/ GetState
  \/ ReleaseTimer

SpecRegistry == Init /\ [][NextRegistry]_vars

(***************************************************************************)
(* Reward payout with repeated calls of processReward                      *)
(***************************************************************************)
\* the processReward() calls made for game o
callsFor(o) == {i \in 1..Len(procs) : procs[i].game = o}

\* game.processReward() is called again for a game it was called for.  The
\* server calls it once per game, from markGameAsCompleted; this action is
\* the retry the comment in its catch block allows for.
RewardAgain ==
  \E o \in 1..Len(objs) :
    /\ callsFor(o) # {}
    /\ Cardinality(callsFor(o)) < MaxInvocations
    /\ Background(drainMicrotasks(processReward(World, o), 1))

NextReward ==
  \/ Create
  \/ Reset
  \/ Hit
  \/ Stand
  \/ RewardAgain
  \/ ReleaseTimer
  \/ AccountInfoArrives
  \/ BlockhashArrives
  \/ SendResolves
  \/ SweepersRun

SpecReward == Init /\ [][NextReward]_vars

(***************************************************************************)
(* Retention: sessions completed at instants around the sweepers' windows  *)
(***************************************************************************)
\* the instants at which anything happens: every run of the daily sweeper
\* up to the second, an hour before and an hour after the first, and the
\* first two runs of the weekly sweeper.  Between the second and the
\* seventh day nothing is added to the maps, so the daily runs of those
\* days remove what the run of the seventh day removes.
SweepInstants ==
  {0, CompletedWindowMs - HourMs, CompletedWindowMs, CompletedWindowMs + HourMs,
   2 * CompletedWindowMs, PaidWindowMs, 2 * PaidWindowMs}

ClockAdvances == SweepersRunAt(SweepInstants)

NextSweep ==
  \/ Create
  \/ Hit
  \/ Stand
  \/ ReleaseTimer
  \/ AccountInfoArrives
  \/ BlockhashArrives
  \/ SendResolves
  \/ ClockAdvances

SpecSweep == Init /\ [][NextSweep]_vars

(***************************************************************************)
(* Scoring: hands of any cards, set by the force-win request               *)
(***************************************************************************)
\* the ranks of the hands explored, and their greatest length
ScoreRanks == {"A", "5", "9", "K"}
MaxHand == 4

ScoreCards == {Card([suit |-> "spades", rank |-> rank], hidden) :
                 rank \in ScoreRanks, hidden \in BOOLEAN}

ScoreHands == UNION {[1..n -> ScoreCards] : n \in 0..MaxHand}

\* the bodies of the force-win requests that set the player's hand
ScoreBodies ==
  {[playerCards |-> [given |-> TRUE, cards |-> hand], dealerCards |-> NotGiven] :
     hand \in ScoreHands}

\* a force-win request of a player who has no session: the session is
\* constructed and its player hand replaced by the hand of the request
ForceHand ==
  /\ \A playerId \in Players : games[playerId] = NoGame
  /\ ForceWinWith(ScoreBodies, SystemDeals, MaxDealt)

NextScore ==
  \/ ForceHand
  \/ GetState

SpecScore == Init /\ [][NextScore]_vars

(***************************************************************************)
(* Properties                                                              *)
(***************************************************************************)
\* the paidRewards key of game o
keyOf(o) == transactionKey(objs[o].playerId, objs[o].gameId)

\* C1: for every (playerId, gameId) key the token transfer is started at
\* most once, whatever requests, repeated processReward calls, transfer
\* outcomes, release timers and sweeper runs have happened.
TransferAtMostOncePerKey ==
  \A key \in DOMAIN transferCalls : transferCalls[key] <= 1

\* A transfer failed, processReward was called again for the same game and
\* has returned, after a sweeper run: the key still has one transfer.
RewardRepeatedAfterFailure ==
  \E o \in 1..Len(objs) :
    /\ now > 0
    /\ MapHas(paidRewards, keyOf(o)) /\ paidRewards[keyOf(o)] = "failed"
    /\ callsOf(World, keyOf(o)) = 1
    /\ \E i, j \in callsFor(o) :
         i < j /\ procs[i].pc = "rejected" /\ procs[j].pc = "resolved"


\* the processReward() calls that are inside the token transfer
inTransfer(o) ==
  {i \in callsFor(o) :
     procs[i].pc \in {"getAccountInfo", "getRecentBlockhash", "sendRawTransaction"}}

\* C2: once processReward has been called twice or more for a won game,
\* whatever the point at which the calls interleave, the token transfer has
\* been started exactly once for its key; while a call is inside the
\* transfer the key is pending and no other call for the game is inside it.
RepeatedRewardTransfersOnce ==
  \A o \in 1..Len(objs) :
    /\ Cardinality(callsFor(o)) >= 2 => callsOf(World, keyOf(o)) = 1
    /\ Cardinality(inTransfer(o)) <= 1
    /\ inTransfer(o) # {} =>
         MapHas(paidRewards, keyOf(o)) /\ paidRewards[keyOf(o)] = "pending"

\* processReward was called a second time while the first call was waiting
\* for the network, and the first call then went on.
RewardRepeatedDuringTransfer ==
  \E o \in 1..Len(objs) :
    \E i, j \in callsFor(o) :
      /\ i < j
      /\ procs[i].pc = "sendRawTransaction"
      /\ procs[j].pc = "returned"
      /\ completedGames[objs[o].gameId].result = "win"
      /\ callsOf(World, keyOf(o)) = 1


\* the registry holds a session of player p that is not completed
holdsLiveSession(p) == games[p] # NoGame /\ ~objs[games[p]].completed

\* the step is the handling of a request op of player p
answers(op, p) == resp'.op = op /\ resp'.playerId = p

\* C3: of two create requests of one player, the one that finds a live
\* session in the registry fails: a create request of a player whose
\* session is live is never answered with success.
CreateWhileLiveFails ==
  [][\A p \in Players :
       holdsLiveSession(p) /\ answers("create", p) => resp'.status # 200]_vars

\* C4: create never makes a new session the player's session while the
\* registry still holds a session of that player that is not completed,
\* whatever creates, resets, hits, stands and release timers came before.
CreateKeepsLiveSession ==
  [][\A p \in Players :
       holdsLiveSession(p) /\ answers("create", p) => games'[p] = games[p]]_vars


\* no card of the hand is hidden
revealed(hand) == \A i \in 1..Len(hand) : ~hand[i].hidden

\* game g with face f in the place of every hidden dealer card
withHoleCard(g, f) ==
  [g EXCEPT !.dealerHand =
     [i \in 1..Len(g.dealerHand) |->
        IF g.dealerHand[i].hidden THEN Card(f, TRUE) ELSE g.dealerHand[i]]]

\* C5: the snapshot of a session is the same whatever the rank and suit of
\* a hidden dealer card, in every state reached (PLAYER_TURN, and GAME_ENDED
\* by a natural, a hit to 21 or a bust), and so is the answer to the next
\* hit.
SnapshotHidesHoleCard ==
  \A p \in Players :
    games[p] # NoGame /\ ~revealed(objs[games[p]].dealerHand) =>
      LET o == games[p]
          snapshot == getGameState(objs[o])
          state == stateHandler(World, p).resp
          other(f) == [World EXCEPT !.objs[o] = withHoleCard(@, f)]
      IN /\ \A f \in Faces : getGameState(withHoleCard(objs[o], f)) = snapshot
         /\ \A f \in DrawCards :
              /\ stateHandler(other(f), p).resp = state
              /\ \A face \in poppable(objs[o].deck) :
                   hitHandler(other(f), p, face, now).resp
                     = hitHandler(World, p, face, now).resp

\* A session ended by a bust is queried while the dealer's second card is
\* still hidden.
BustSnapshotWithHiddenCard ==
  \E p \in Players :
    /\ games[p] # NoGame
    /\ objs[games[p]].state = "GAME_ENDED"
    /\ calculateScore(objs[games[p]].playerHand) > Blackjack
    /\ objs[games[p]].dealerHand[2].hidden
    /\ resp = Response("state", p, 200, getGameState(objs[games[p]]))


\* session g is in no intermediate state of hit or stand
settled(g) ==
  /\ g.state # "DEALER_TURN"
  /\ revealed(g.dealerHand) => calculateScore(g.dealerHand) >= DealerStandsAt
  /\ g.state = "PLAYER_TURN" =>
       /\ ~g.completed
       /\ calculateScore(g.playerHand) < Blackjack
       /\ ~revealed(g.dealerHand)
  /\ g.state = "GAME_ENDED" => g.completed /\ MapHas(completedGames, g.gameId)

\* C6: hit and stand run to their end before any other request is handled.
\* The session every request finds, and the snapshot every request is
\* answered with, is a state before or after the whole action: never
\* DEALER_TURN, never a revealed dealer hand below 17, never a player hand
\* of 21 or more in PLAYER_TURN, never GAME_ENDED without its ledger entry.
HitAndStandAreAtomic ==
  /\ \A p \in Players : games[p] # NoGame => settled(objs[games[p]])
  /\ resp.op \in {"create", "hit", "stand", "state"} /\ resp.status = 200 =>
       /\ resp.body = getGameState(objs[games[resp.playerId]])
       /\ resp.body.state # "DEALER_TURN"
       /\ revealed(resp.body.dealerHand) => resp.body.dealerScore >= DealerStandsAt

\* stand made the dealer draw, and the answer shows the finished game
StandAnsweredAfterDealerDrew ==
  /\ resp.op = "stand" /\ resp.status = 200
  /\ resp.body.state = "GAME_ENDED"
  /\ Len(resp.body.dealerHand) >= 4
  /\ revealed(resp.body.dealerHand)


\* every consecutive pair of the sequence is an edge of VALID_GAME_STATES
followsTable(history) ==
  \A i \in 1..(Len(history) - 1) : isValidStateTransition(history[i], history[i + 1])

\* C7: the stateHistory of every session follows the table
\* PLAYER_TURN -> {DEALER_TURN, GAME_ENDED}, DEALER_TURN -> {GAME_ENDED},
\* GAME_ENDED -> {}, and ends with the session's state, under hit, stand,
\* the initial deal and a forced outcome.
StateHistoryFollowsTable ==
  \A p \in Players :
    games[p] # NoGame =>
      LET g == objs[games[p]]
      IN /\ followsTable(g.stateHistory)
         /\ g.stateHistory[Len(g.stateHistory)] = g.state


\* the session of player p cannot be acted on
ended(p) ==
  /\ games[p] # NoGame
  /\ objs[games[p]].state # "PLAYER_TURN" \/ objs[games[p]].completed

\* C8: a hit or stand request for a session that is not in PLAYER_TURN or
\* is completed is answered with an error, and the session (hands, deck,
\* state, stateHistory, completed, rewardPaid), the ledger and the
\* paid-rewards map stay as they were.
ActionOnEndedSessionRejected ==
  [][\A p \in Players :
       ended(p) /\ (answers("hit", p) \/ answers("stand", p)) =>
         /\ resp'.status = 400
         /\ "error" \in DOMAIN resp'.body
         /\ UNCHANGED <<games, activePlayers, completedGames, paidRewards, objs,
                        procs, timers, transferCalls>>]_vars

\* a stand request was rejected for a session that a bust had ended
StandRejectedAfterBust ==
  \E p \in Players :
    /\ ended(p)
    /\ calculateScore(objs[games[p]].playerHand) > Blackjack
    /\ resp = Error("stand", p, 400, "Game is already completed")


\* the number of cards createDeck builds
FullDeck == NumDecks * Cardinality(Faces)

\* the result that ledger records for game g ("none": no entry)
resultIn(ledger, g) ==
  IF MapHas(ledger, g.gameId) THEN ledger[g.gameId].result ELSE "none"

ledgerResult(g) == resultIn(completedGames, g)

\* the first two cards dealt to the player of g score 21
dealtNatural(g) ==
  Len(g.playerHand) >= 2 /\ calculateScore(SubSeq(g.playerHand, 1, 2)) = Blackjack

\* C9: a session whose two dealt player cards score 21 is, from the first
\* state in which a request can see it, GAME_ENDED and completed with the
\* ledger result win, whatever the dealer holds; no card beyond the four
\* dealt is drawn and the dealer's second card stays hidden.
NaturalWinsAtOnce ==
  \A p \in Players :
    games[p] # NoGame /\ dealtNatural(objs[games[p]]) =>
      LET g == objs[games[p]]
      IN /\ g.state = "GAME_ENDED"
         /\ g.stateHistory = <<"PLAYER_TURN", "GAME_ENDED">>
         /\ g.completed
         /\ ledgerResult(g) = "win"
         /\ Len(g.playerHand) = 2 /\ Len(g.dealerHand) = 2
         /\ deckLength(g.deck) = FullDeck - 4
         /\ ~g.dealerHand[1].hidden /\ g.dealerHand[2].hidden

\* the player was dealt a natural while the dealer's two cards make 21 too,
\* and the create request was answered
NaturalAgainstDealerNatural ==
  \E p \in Players :
    /\ games[p] # NoGame
    /\ dealtNatural(objs[games[p]])
    /\ calculateScore(revealAll(objs[games[p]].dealerHand)) = Blackjack
    /\ resp = Response("create", p, 200, getGameState(objs[games[p]]))

\* C10: a hit request for a session in PLAYER_TURN moves exactly one card
\* from the deck to the player hand; above 21 the session is GAME_ENDED with
\* ledger result loss; at 21 it is GAME_ENDED with ledger result win and the
\* dealer hand is unchanged; below 21 it stays in PLAYER_TURN, not completed.
HitDrawsOneCardAndSettles ==
  [][\A p \in Players :
       isLive(p) /\ answers("hit", p) =>
         LET g == objs[games[p]]
             h == objs'[games'[p]]
             score == calculateScore(h.playerHand)
             card == h.playerHand[Len(h.playerHand)]
         IN /\ games'[p] = games[p] /\ resp'.status = 200
            /\ Len(h.playerHand) = Len(g.playerHand) + 1
            /\ SubSeq(h.playerHand, 1, Len(g.playerHand)) = g.playerHand
            /\ ~card.hidden
            /\ h.deck = popped(g.deck, [suit |-> card.suit, rank |-> card.rank])
            /\ deckLength(h.deck) = deckLength(g.deck) - 1
            /\ IF score > Blackjack
               THEN h.state = "GAME_ENDED" /\ h.completed /\ resultIn(completedGames', h) = "loss"
               ELSE IF score = Blackjack
               THEN /\ h.state = "GAME_ENDED" /\ h.completed
                    /\ resultIn(completedGames', h) = "win"
                    /\ h.dealerHand = g.dealerHand
               ELSE /\ h.state = "PLAYER_TURN" /\ ~h.completed
                    /\ resultIn(completedGames', h) = "none"]_vars

\* a hit brought the player to exactly 21 and was answered
HitReached21 ==
  \E p \in Players :
    /\ games[p] # NoGame
    /\ Len(objs[games[p]].playerHand) = 3
    /\ calculateScore(objs[games[p]].playerHand) = Blackjack
    /\ resp = Response("hit", p, 200, getGameState(objs[games[p]]))


\* C11: after every stand that succeeds the session is GAME_ENDED, every
\* dealer card is revealed, the dealer's score is 17 or more (a bust
\* included), the dealer's first two cards are the ones dealt, and every
\* card the dealer drew was drawn on a score below 17.
StandEndsWithDealerAt17 ==
  [][\A p \in Players :
       answers("stand", p) /\ resp'.status = 200 =>
         LET g == objs[games[p]]
             h == objs'[games'[p]]
         IN /\ games'[p] = games[p]
            /\ h.state = "GAME_ENDED"
            /\ revealed(h.dealerHand)
            /\ calculateScore(h.dealerHand) >= DealerStandsAt
            /\ SubSeq(h.dealerHand, 1, 2) = revealAll(g.dealerHand)
            /\ \A k \in 3..Len(h.dealerHand) :
                 calculateScore(SubSeq(h.dealerHand, 1, k - 1)) < DealerStandsAt
            /\ resp'.body.state = "GAME_ENDED"
            /\ resp'.body.dealerHand = h.dealerHand
            /\ resp'.body.dealerScore = calculateScore(h.dealerHand)]_vars

\* a stand was answered after the dealer drew two cards and went bust
DealerDrewTwiceAndBust ==
  /\ resp.op = "stand" /\ resp.status = 200
  /\ Len(resp.body.dealerHand) = 4
  /\ resp.body.dealerScore > Blackjack


\* the result the winner rule gives for the final scores
winnerRule(playerScore, dealerScore) ==
  IF playerScore > Blackjack THEN "loss"
  ELSE IF dealerScore > Blackjack \/ playerScore > dealerScore THEN "win"
  ELSE "loss"

\* C12: the result the ledger records when stand ends a game depends on
\* the final scores only: loss when the player is above 21, else win when
\* the dealer is above 21 or the player's score is strictly greater, else
\* loss; equal scores are a loss.
StandResultFollowsScores ==
  [][\A p \in Players :
       answers("stand", p) /\ resp'.status = 200 =>
         LET h == objs'[games'[p]]
             playerScore == calculateScore(h.playerHand)
             dealerScore == calculateScore(h.dealerHand)
         IN /\ h.completed
            /\ resultIn(completedGames', h) = winnerRule(playerScore, dealerScore)
            /\ playerScore = dealerScore => resultIn(completedGames', h) = "loss"
            /\ completedGames'[h.gameId].playerId = p]_vars

\* a stand ended a game with equal scores after the dealer had to draw, and
\* the ledger records a loss
StandTiedAfterDraw ==
  \E p \in Players :
    /\ resp.op = "stand" /\ resp.status = 200 /\ resp.playerId = p
    /\ Len(resp.body.dealerHand) >= 3
    /\ resp.body.playerScore = resp.body.dealerScore
    /\ ledgerResult(objs[games[p]]) = "loss"


\* the processReward() calls for game o among the calls ps
callsIn(ps, o) == {i \in 1..Len(ps) : ps[i].game = o}

\* the release timers pending for game o among the timers ts
timersIn(ts, o) == {i \in 1..Len(ts) : ts[i] = o}

\* game o exists and is completed, among the objects os
completedIn(os, o) == o <= Len(os) /\ os[o].completed

\* C13: for every session the mark-completed side effect happens once.
\* completed never goes back to false; the step that sets it writes one
\* ledger entry, sets one release timer and calls processReward at most
\* once; processReward is never called twice for a session; and a request
\* of a player whose session is completed (a late hit or stand, a create, a
\* forced outcome) leaves that session's ledger entry, processReward calls
\* and release timer as they were.
MarkCompletedOnce ==
  [][/\ \A o \in 1..Len(objs') :
          /\ completedIn(objs, o) => objs'[o].completed
          /\ Cardinality(callsIn(procs', o)) <= 1
          /\ ~completedIn(objs, o) /\ objs'[o].completed =>
               /\ MapHas(completedGames', objs'[o].gameId)
               /\ ~MapHas(completedGames, objs'[o].gameId)
               /\ completedGames'[objs'[o].gameId].timestamp = now
               /\ Cardinality(timersIn(timers', o)) = 1
               /\ timersIn(timers, o) = {}
               /\ callsIn(procs, o) = {}
          /\ completedIn(objs, o) =>
               Cardinality(timersIn(timers', o)) <= Cardinality(timersIn(timers, o))
     /\ \A p \in Players :
          /\ games[p] # NoGame /\ objs[games[p]].completed
          /\ resp'.op \in {"create", "hit", "stand", "force-win"}
          /\ resp'.playerId = p
          => LET o == games[p]
                 gameId == objs[o].gameId
             IN /\ MapHas(completedGames', gameId) = MapHas(completedGames, gameId)
                /\ MapHas(completedGames, gameId) =>
                     completedGames'[gameId] = completedGames[gameId]
                /\ callsIn(procs', o) = callsIn(procs, o)
                /\ \A i \in callsIn(procs, o) : procs'[i] = procs[i]
                /\ timersIn(timers', o) = timersIn(timers, o)
                /\ objs'[o].rewardPaid = objs[o].rewardPaid]_vars

\* a session that a bust had ended was forced to a winning hand: the ledger
\* still records the loss and processReward was not called
ForcedWinOnLostSession ==
  \E p \in Players :
    /\ games[p] # NoGame
    /\ resp.op = "force-win" /\ resp.status = 200 /\ resp.playerId = p
    /\ forcedAgain(objs[games[p]])
    /\ resp.body.playerScore > resp.body.dealerScore
    /\ resp.body.playerScore <= Blackjack
    /\ ledgerResult(objs[games[p]]) = "loss"
    /\ callsFor(games[p]) = {}


\* the points at which a processReward call waits for the network
TransferPoints == {"getAccountInfo", "getRecentBlockhash", "sendRawTransaction"}

\* C14: the step in which the transfer of a key resolves records the
\* outcome.  On success the paid-rewards record is completed, rewardPaid is
\* true and the ledger is left as it is, its entry being processed; on
\* failure the record is failed, the ledger entry is processed = false with
\* the result, player and timestamp it had, rewardPaid stays false and the
\* session's state, cards and completed flag are unchanged.  Until the
\* ledger sweeper's window has passed the entry is present in both cases.
TransferOutcomeRecorded ==
  [][\A i \in 1..Len(procs) :
       procs[i].pc \in TransferPoints =>
         LET o == procs[i].game
             g == objs[o]
             h == objs'[o]
             key == keyOf(o)
             entry == procs[i].gameCompletion
         IN /\ procs'[i].pc \in TransferPoints \cup {"resolved", "rejected"}
            /\ paidRewards[key] = "pending" /\ ~g.rewardPaid /\ entry.processed
            /\ now < entry.timestamp + CompletedWindowMs =>
                 MapHas(completedGames, g.gameId) /\ completedGames[g.gameId] = entry
            /\ procs'[i].pc = "resolved" =>
                 /\ procs[i].pc = "sendRawTransaction"
                 /\ paidRewards'[key] = "completed"
                 /\ h = [g EXCEPT !.rewardPaid = TRUE]
                 /\ completedGames' = completedGames
                 /\ MapHas(completedGames, g.gameId) =>
                      completedGames[g.gameId].processed
            /\ procs'[i].pc = "rejected" =>
                 /\ paidRewards'[key] = "failed"
                 /\ h = g
                 /\ MapHas(completedGames', g.gameId)
                 /\ completedGames'[g.gameId] = [entry EXCEPT !.processed = FALSE]
                 /\ entry.result = "win"
            /\ procs'[i].pc \in TransferPoints =>
                 paidRewards'[key] = "pending" /\ ~h.rewardPaid]_vars

\* the transfer of one session has succeeded and the transfer of another
\* has failed
OneTransferPaidOneFailed ==
  \E o1, o2 \in 1..Len(objs) :
    /\ MapHas(paidRewards, keyOf(o1)) /\ paidRewards[keyOf(o1)] = "completed"
    /\ objs[o1].rewardPaid
    /\ MapHas(completedGames, objs[o1].gameId)
    /\ completedGames[objs[o1].gameId].processed
    /\ MapHas(paidRewards, keyOf(o2)) /\ paidRewards[keyOf(o2)] = "failed"
    /\ ~objs[o2].rewardPaid
    /\ MapHas(completedGames, objs[o2].gameId)
    /\ ~completedGames[objs[o2].gameId].processed
    /\ completedGames[objs[o2].gameId].result = "win"


\* the requests a client can send in the current state: [op, playerId, cards]
Requests ==
  UNION { LET o == games[p]
              live == isLive(p)
          IN { [op |-> "create", playerId |-> p, cards |-> faces] : faces \in SystemDeals }
             \cup { [op |-> "reset", playerId |-> p, cards |-> faces] : faces \in SystemDeals }
             \cup { [op |-> "hit", playerId |-> p, cards |-> <<face>>] :
                    face \in IF live THEN poppable(objs[o].deck) ELSE {King} }
             \cup { [op |-> "stand", playerId |-> p, cards |-> draws] :
                    draws \in IF live
                              THEN dealerDraws(revealAll(objs[o].dealerHand), objs[o].deck)
                              ELSE {<<>>} }
             \cup { [op |-> "state", playerId |-> p, cards |-> <<>>] }
        : p \in Players }

\* the handling of request q in world w at instant t: [w, resp]
served(w, q, t) ==
  LET r == CASE q.op = "create" -> createHandler(w, q.playerId, TRUE, q.cards, t)
             [] q.op = "reset" -> resetHandler(w, q.playerId, q.cards, t)
             [] q.op = "hit" -> hitHandler(w, q.playerId, q.cards[1], t)
             [] q.op = "stand" -> standHandler(w, q.playerId, q.cards, t)
             [] q.op = "state" -> stateHandler(w, q.playerId)
  IN [w |-> drainMicrotasks(r.w, 1), resp |-> r.resp]

\* the network answers call i of processReward: ok, or with an error
networkAnswers(w, i, ok) ==
  CASE w.procs[i].pc = "getAccountInfo" -> afterGetAccountInfo(w, i, ok)
    [] w.procs[i].pc = "getRecentBlockhash" -> afterGetRecentBlockhash(w, i, ok)
    [] w.procs[i].pc = "sendRawTransaction" -> afterSendRawTransaction(w, i, ok)

\* two answers that differ at most in the rewardPaid field of the snapshot
sameButRewardPaid(a, b) ==
  \/ a = b
  \/ /\ a.status = 200 /\ b.status = 200
     /\ [a EXCEPT !.body.rewardPaid = b.body.rewardPaid] = b

\* While a transfer is in flight every request is served, with the same
\* effect whether the network answers before or after it, and with the same
\* answer (exact: in every field; otherwise: but for rewardPaid).
servedWhateverTheTransfer(exact) ==
  \A i \in 1..Len(procs) :
    procs[i].pc \in TransferPoints =>
      \A q \in Requests, ok \in BOOLEAN :
        LET before == served(World, q, now)
            after == served(networkAnswers(World, i, ok), q, now)
        IN /\ before.resp.op = q.op
           /\ IF exact THEN before.resp = after.resp
              ELSE sameButRewardPaid(before.resp, after.resp)
           /\ networkAnswers(before.w, i, ok) = after.w

\* the step that ends a session as a win answers the request with the ended
\* session while the transfer it started waits for its first network call
winAnsweredBeforeTransfer ==
  \A o \in 1..Len(objs') :
    /\ ~completedIn(objs, o) /\ objs'[o].completed
    /\ resultIn(completedGames', objs'[o]) = "win"
    => /\ resp'.status = 200
       /\ resp'.body.gameId = objs'[o].gameId
       /\ resp'.body.state = "GAME_ENDED" /\ resp'.body.completed
       /\ ~resp'.body.rewardPaid
       /\ \E i \in callsIn(procs', o) : procs'[i].pc = "getAccountInfo"
       /\ paidRewards'[transactionKey(objs'[o].playerId, objs'[o].gameId)] = "pending"

\* C15 as claimed: the step that ends a winning session answers while the
\* transfer is unresolved, and while a transfer is in flight every create,
\* hit, stand, get-state and reset request is served with an answer and an
\* effect that do not depend on whether and how the transfer has resolved.
RequestsIndependentOfTransfer ==
  /\ [][winAnsweredBeforeTransfer]_vars
  /\ []servedWhateverTheTransfer(TRUE)

\* C15, amended: as above, but the snapshot a request is answered with may
\* differ in its rewardPaid field, which the resolved transfer sets.
RequestsNotBlockedByTransfer ==
  /\ [][winAnsweredBeforeTransfer]_vars
  /\ []servedWhateverTheTransfer(FALSE)

\* a stand was answered with a win while the transfer it started waits for
\* the network
StandWonWhileTransferInFlight ==
  \E p \in Players, i \in 1..Len(procs) :
    /\ resp.op = "stand" /\ resp.status = 200 /\ resp.playerId = p
    /\ procs[i].game = games[p] /\ procs[i].pc = "getAccountInfo"
    /\ resp.body.state = "GAME_ENDED" /\ ~resp.body.rewardPaid
    /\ ledgerResult(objs[games[p]]) = "win"


\* session g has just been dealt: two cards each, the dealer's second card
\* hidden, ended at once exactly when the player holds 21
freshlyDealt(g) ==
  /\ Len(g.playerHand) = 2 /\ Len(g.dealerHand) = 2
  /\ ~g.playerHand[1].hidden /\ ~g.playerHand[2].hidden
  /\ ~g.dealerHand[1].hidden /\ g.dealerHand[2].hidden
  /\ deckLength(g.deck) = FullDeck - 4
  /\ ~g.rewardPaid
  /\ IF calculateScore(g.playerHand) = Blackjack
     THEN g.state = "GAME_ENDED" /\ g.completed
     ELSE g.state = "PLAYER_TURN" /\ ~g.completed

\* C16: in every state of the server (no session, a live session, a
\* completed session with or without the player's marker, a payout in
\* flight) a reset request of a well-formed playerId is answered with
\* success; after it the registry maps the player to a session that did not
\* exist before, freshly dealt, with a gameId no session had, the player is
\* in activePlayers, and no request reaches the session it replaced.
ResetAlwaysSupersedes ==
  \A p \in Players, faces \in SystemDeals :
    LET r == served(World, [op |-> "reset", playerId |-> p, cards |-> faces], now)
        old == games[p]
        o == r.w.games[p]
    IN /\ r.resp.op = "reset" /\ r.resp.status = 200
       /\ o = Len(objs) + 1 /\ Len(r.w.objs) = o
       /\ \A k \in 1..Len(objs) : objs[k].gameId # r.w.objs[o].gameId
       /\ r.w.objs[o].playerId = p
       /\ freshlyDealt(r.w.objs[o])
       /\ r.w.objs[o].deck = popped(popped(popped(popped(createDeck, faces[1]),
                                                  faces[2]), faces[3]), faces[4])
       /\ p \in r.w.activePlayers
       /\ r.resp.body = getGameState(r.w.objs[o])
       /\ stateHandler(r.w, p).resp.body.gameId = r.w.objs[o].gameId
       /\ \A q \in Players : old # NoGame => r.w.games[q] # old
       /\ \A q \in Players \ {p} : r.w.games[q] = games[q]

\* a reset was answered while the payout of the session it replaced is in
\* flight
ResetDuringPayout ==
  \E p \in Players, i \in 1..Len(procs) :
    /\ resp.op = "reset" /\ resp.status = 200 /\ resp.playerId = p
    /\ procs[i].pc \in TransferPoints
    /\ procs[i].game # games[p]
    /\ objs[procs[i].game].playerId = p
    /\ p \in activePlayers
    /\ resp.body.gameId = objs[games[p]].gameId


\* the session of player p is completed and its release timer is pending
awaitsRelease(p) ==
  /\ games[p] # NoGame
  /\ objs[games[p]].completed
  /\ timersIn(timers, games[p]) # {}

\* C17: the step that completes a session leaves the player's marker in
\* activePlayers, and only a release timer takes a marker away; while a
\* completed session waits for its release timer a create request of the
\* player makes no new session, and hit and stand are rejected because the
\* session is completed.
MarkerHeldUntilRelease ==
  [][/\ \A o \in 1..Len(objs') :
          ~completedIn(objs, o) /\ objs'[o].completed =>
            /\ o > Len(objs) \/ objs'[o].playerId \in activePlayers =>
                 objs'[o].playerId \in activePlayers'
            /\ timersIn(timers', o) # {}
     /\ \A p \in Players :
          /\ p \in activePlayers /\ p \notin activePlayers' =>
               resp' = NoResp /\ timers # <<>> /\ timers' = Tail(timers)
          /\ awaitsRelease(p) /\ answers("create", p) =>
               games'[p] = games[p] /\ objs' = objs
          /\ awaitsRelease(p) /\ (answers("hit", p) \/ answers("stand", p)) =>
               /\ resp' = Error(resp'.op, p, 400, "Game is already completed")
               /\ objs' = objs]_vars


\* C18: a run of the ledger sweeper removes every entry of completedGames
\* that is older than 24 hours at the run and keeps, unchanged, every entry
\* that is not, whatever its result and its processed flag, and adds none:
\* an entry 25 hours old is removed, an entry 23 hours old is kept.
LedgerSweptByAge ==
  [][now' # now /\ now' % CompletedWindowMs = 0 =>
       /\ \A gameId \in DOMAIN completedGames :
            IF now' - completedGames[gameId].timestamp > CompletedWindowMs
            THEN ~MapHas(completedGames', gameId)
            ELSE /\ MapHas(completedGames', gameId)
                 /\ completedGames'[gameId] = completedGames[gameId]
       /\ DOMAIN completedGames' \subseteq DOMAIN completedGames]_vars

\* the run of the second day has removed the entry of a session completed
\* 25 hours before it and kept the entry of one completed 23 hours before
Entry25HoursOldRemoved23Kept ==
  /\ now = 2 * CompletedWindowMs /\ resp = NoResp
  /\ \E o1, o2 \in 1..Len(objs) :
       /\ objs[o1].gameId.timestamp = now - 25 * HourMs
       /\ objs[o1].completed
       /\ ~MapHas(completedGames, objs[o1].gameId)
       /\ MapHas(completedGames, objs[o2].gameId)
       /\ completedGames[objs[o2].gameId].timestamp = now - 23 * HourMs


\* the instant at which the paid-rewards record of key was written: the
\* instant of the processReward call that wrote it
recordedAt(key) ==
  LET i == CHOOSE i \in 1..Len(procs) :
             /\ keyOf(procs[i].game) = key
             /\ procs[i].gameCompletion # NoEntry
  IN procs[i].gameCompletion.timestamp

\* C19: a run of the paid-rewards sweeper removes a record if and only if
\* the record is older than 7 days at the run, whether it is pending,
\* completed or failed.
PaidRewardsSweptByAge ==
  [][now' # now /\ now' % PaidWindowMs = 0 =>
       \A key \in DOMAIN paidRewards :
         (now' - recordedAt(key) > PaidWindowMs) <=> ~MapHas(paidRewards', key)]_vars


\* the value of a card with every Ace counted as 1 and hidden cards as 0
lowValue(card) ==
  IF card.hidden THEN 0
  ELSE IF card.rank = "A" THEN 1
  ELSE IF card.rank \in {"K", "Q", "J"} THEN 10
  ELSE parseRank(card.rank)

RECURSIVE lowTotal(_)
lowTotal(hand) ==
  IF hand = <<>> THEN 0 ELSE lowValue(Head(hand)) + lowTotal(Tail(hand))

\* the totals of a hand, over every way to count each visible Ace as 1 or 11
totals(hand) ==
  LET aces == Cardinality({i \in 1..Len(hand) : ~hand[i].hidden /\ hand[i].rank = "A"})
  IN {lowTotal(hand) + 10 * high : high \in 0..aces}

least(S) == CHOOSE x \in S : \A y \in S : x <= y
greatest(S) == CHOOSE x \in S : \A y \in S : x >= y

\* the totals of a hand that do not exceed 21
standing(hand) == {x \in totals(hand) : x <= Blackjack}

\* the hands whose scores the server has computed and sent
scoredHands ==
  {objs[games[p]].playerHand : p \in {q \in Players : games[q] # NoGame}}

\* C20 as claimed: the score of every hand is the least total not above 21
\* among the ways to count each visible Ace as 1 or 11, when there is one,
\* and otherwise the least total (every Ace counted as 1); hidden cards add
\* nothing.
ScoreIsLeastTotal ==
  \A hand \in scoredHands :
    calculateScore(hand) =
      IF standing(hand) # {} THEN least(standing(hand)) ELSE least(totals(hand))

\* C20, amended: the score of every hand is the greatest total not above
\* 21 among the ways to count each visible Ace as 1 or 11, when there is
\* one, and otherwise the least total (every Ace counted as 1); hidden cards
\* add nothing, and the answer to the request shows that score.
ScoreIsBestTotal ==
  /\ \A hand \in scoredHands :
       /\ calculateScore(hand) =
            IF standing(hand) # {} THEN greatest(standing(hand))
            ELSE least(totals(hand))
       /\ calculateScore(hand) = calculateScore(SelectSeq(hand, LAMBDA c : ~c.hidden))
  /\ resp.op \in {"force-win", "state"} /\ resp.status = 200 =>
       resp.body.playerScore = calculateScore(resp.body.playerHand)

\* the hand of a session holds two visible Aces and a hidden card and
\* scores 21, one Ace counted as 11 and one as 1
TwoAcesOneHighScore21 ==
  \E p \in Players :
    /\ games[p] # NoGame
    /\ resp.op = "force-win" /\ resp.status = 200
    /\ resp.body.playerScore = Blackjack
    /\ countAces(objs[games[p]].playerHand) = 2
    /\ \E i \in 1..Len(objs[games[p]].playerHand) : objs[games[p]].playerHand[i].hidden


\* C21: a processReward call for a game whose key is already in
\* paidRewards, whatever its status, starts no transfer and leaves the
\* status, the processed flag of the ledger entry and rewardPaid as they
\* were; rewardPaid is true only for a session whose transfer succeeded.
RewardForExistingRecordIsNoOp ==
  [][/\ \A o \in 1..Len(objs) :
          /\ callsIn(procs', o) # callsIn(procs, o)
          /\ MapHas(paidRewards, keyOf(o))
          => /\ transferCalls' = transferCalls
             /\ paidRewards' = paidRewards
             /\ completedGames' = completedGames
             /\ objs'[o].rewardPaid = objs[o].rewardPaid
     /\ \A o \in 1..Len(objs') :
          objs'[o].rewardPaid =>
            LET key == transactionKey(objs'[o].playerId, objs'[o].gameId)
            IN MapHas(paidRewards', key) /\ paidRewards'[key] = "completed"]_vars


\* C22: an entry enters completedGames only in the step that completes its
\* session; processReward changes the processed flag of an entry that is
\* there and never adds one, so an entry the sweeper has removed does not
\* come back.
LedgerEntryOnlyByCompletion ==
  [][\A gameId \in DOMAIN completedGames' :
       IF MapHas(completedGames, gameId)
       THEN /\ completedGames'[gameId].result = completedGames[gameId].result
            /\ completedGames'[gameId].timestamp = completedGames[gameId].timestamp
            /\ completedGames'[gameId].playerId = completedGames[gameId].playerId
       ELSE \E o \in 1..Len(objs') :
              /\ objs'[o].gameId = gameId
              /\ ~completedIn(objs, o) /\ objs'[o].completed]_vars


\* C23: a player whose session in games is not completed is in
\* activePlayers; the release timer set when one session completed does not
\* take away the marker while a later session of the player is live.
LiveSessionHoldsMarker ==
  \A p \in Players :
    games[p] # NoGame /\ ~objs[games[p]].completed => p \in activePlayers


\* deck.length + playerHand.length + dealerHand.length of game g
cardsOf(g) == deckLength(g.deck) + Len(g.playerHand) + Len(g.dealerHand)

\* hand without its last card
drawnOnto(hand) == SubSeq(hand, 1, Len(hand) - 1)

OnlyWinsArePaid ==
  /\ [][\A o \in 1..Len(objs') :
          LET gameId == objs'[o].gameId
              key == transactionKey(objs'[o].playerId, gameId)
          IN /\ \/ \E i \in callsIn(procs', o) \ callsIn(procs, o) :
                     procs'[i].pc # "returned"
                \/ MapHas(paidRewards', key) /\ ~MapHas(paidRewards, key)
                \/ /\ MapHas(transferCalls', key)
                   /\ ~MapHas(transferCalls, key) \/ transferCalls'[key] > transferCalls[key]
                \/ /\ MapHas(completedGames', gameId) /\ completedGames'[gameId].processed
                   /\ ~(MapHas(completedGames, gameId) /\ completedGames[gameId].processed)
                => MapHas(completedGames', gameId) /\ completedGames'[gameId].result = "win"
             /\ objs'[o].rewardPaid /\ ~(o <= Len(objs) /\ objs[o].rewardPaid)
                => callsIn(procs, o) # {} /\ MapHas(paidRewards, key)]_vars
  /\ [](\A o \in 1..Len(objs) :
          resultIn(completedGames, objs[o]) = "loss" =>
            /\ callsIn(procs, o) = {}
            /\ ~MapHas(paidRewards, keyOf(o))
            /\ ~MapHas(transferCalls, keyOf(o))
            /\ ~completedGames[objs[o].gameId].processed
            /\ ~objs[o].rewardPaid)

\* a session that was lost is in the ledger while an earlier session of the
\* same player has been paid
LossAfterPaidWin ==
  \E o \in 1..Len(objs) :
    /\ objs[o].completed
    /\ resultIn(completedGames, objs[o]) = "loss"
    /\ timersIn(timers, o) = {}
    /\ \E n \in 1..Len(objs) :
         /\ objs[n].playerId = objs[o].playerId
         /\ objs[n].rewardPaid
         /\ MapHas(paidRewards, keyOf(n)) /\ paidRewards[keyOf(n)] = "completed"


(***************************************************************************)
(* Transfers when every network call is answered in the end                *)
(***************************************************************************)
\* create, reset, hit and stand requests, timers, sweepers and the answers
\* of the network
NextAnswered ==
  \/ Create
  \/ Reset
  \/ Hit
  \/ Stand
  \/ ReleaseTimer
  \/ AccountInfoArrives
  \/ BlockhashArrives
  \/ SendResolves
  \/ SweepersRun

\* connection.getAccountInfo, getRecentBlockhash and sendRawTransaction
\* resolve or reject in the end, and the event loop then runs the
\* continuation that waits for the answer
SpecAnswered ==
  /\ Init /\ [][NextAnswered]_vars
  /\ WF_vars(AccountInfoArrives)
  /\ WF_vars(BlockhashArrives)
  /\ WF_vars(SendResolves)

\* the paidRewards key of game o is there with this status
statusIs(o, status) ==
  /\ o <= Len(objs)
  /\ MapHas(paidRewards, keyOf(o))
  /\ paidRewards[keyOf(o)] = status

\* C26: when every network call of the transfer is answered, a key that is
\* pending in paidRewards is later completed, failed or removed; and a key
\* is pending only while a sendCardsReward call for its game waits for an
\* answer of the network.
PendingIsResolved ==
  /\ \A o \in 1..MaxGames :
       statusIs(o, "pending")
         ~> (statusIs(o, "completed") \/ statusIs(o, "failed")
             \/ (o <= Len(objs) /\ ~MapHas(paidRewards, keyOf(o))))
  /\ [](\A o \in 1..Len(objs) :
          statusIs(o, "pending") =>
            \E i \in callsIn(procs, o) : procs[i].pc \in TransferPoints)

\* the transfer of a game was rejected by the network: its key is failed,
\* no call waits any more, and the game is not marked as paid
PendingBecameFailed ==
  \E o \in 1..Len(objs) :
    /\ statusIs(o, "failed")
    /\ callsIn(procs, o) # {}
    /\ \A i \in callsIn(procs, o) : procs[i].pc = "rejected"
    /\ ~objs[o].rewardPaid

====
